---- MODULE Spec2Model ----
(***************************************************************************)
(* Streaming indicators of ta-rs: Minimum (sliding-window minimum over a   *)
(* circular buffer with a cached extremum index), FastStochastic (built    *)
(* from a Minimum and a Maximum) and RateOfChange (a bounded queue).       *)
(*                                                                         *)
(* Numbers.  An f64 input is modelled by a small integer.  INFINITY is an  *)
(* integer strictly above every input of the model, NEG_INFINITY its       *)
(* negation.  A computed f64 (a quotient times 100) is modelled by the     *)
(* exact rational [num, den] in lowest terms with den > 0; den = 0 stands  *)
(* for the IEEE results of a division by zero: num = 1 is +inf, num = -1   *)
(* is -inf and num = 0 is NaN.  Rounding is not modelled.                  *)
(***************************************************************************)
EXTENDS Integers, Sequences, FiniteSets, TLC

\* ---------------------------------------------------------------- bounds
MaxLength == 3
MaxPeriod == 2
MaxValue == 2
MaxPrice == 2
MaxSteps == 5

\* the number of updates of a Minimum that are counted
MaxTicks == 10

\* lengths passed to Minimum::new and RateOfChange::new
Lengths == 0..MaxLength
\* lengths passed to FastStochastic::new
Periods == 0..MaxPeriod
Values == (-1)..MaxValue
Prices == 0..MaxPrice

\* ------------------------------------------------------------- constants
INFINITY == 1000
NEG_INFINITY == -INFINITY

\* ------------------------------------------------------------ f64 values
Abs(x) == IF x < 0 THEN -x ELSE x

Sign(x) == IF x > 0 THEN 1 ELSE IF x < 0 THEN -1 ELSE 0

RECURSIVE GCD(_, _)
GCD(a, b) == IF b = 0 THEN a ELSE GCD(b, a % b)

F64(v) == [num |-> v, den |-> 1]

\* a / b on f64: the quotient in lowest terms; x/0 is +inf, -inf or NaN
Div(a, b) ==
    IF b = 0 THEN [num |-> Sign(a), den |-> 0]
    ELSE LET g == GCD(Abs(a), Abs(b))
             s == Sign(b)
         IN  [num |-> (s * a) \div g, den |-> (s * b) \div g]

\* r * k on f64, k a positive integer: inf and NaN are kept
Mul(r, k) == IF r.den = 0 THEN r ELSE Div(r.num * k, r.den)

\* ---------------------------------------------------------------- errors
Ok(v) == [ok |-> TRUE, val |-> v]

Err(kind) == [ok |-> FALSE, err |-> kind]

\* ============================================================== Minimum
\* Minimum::new with the test n < 0, which no length satisfies, in place of
\* n <= 0: a faulty variant, under which C2_Construction fails
Minimum_new_unchecked(n) ==
    IF n < 0 THEN Err("InvalidParameter")
    ELSE Ok([n |-> n,
             vec |-> [i \in 0..(n - 1) |-> INFINITY],
             min_index |-> 0,
             cur_index |-> 0])

Minimum_new(n) ==
    IF n <= 0 THEN Err("InvalidParameter")
    ELSE Ok([n |-> n,
             vec |-> [i \in 0..(n - 1) |-> INFINITY],
             min_index |-> 0,
             cur_index |-> 0])

\* the loop with the test val <= min, which lets a later slot win a tie: a
\* faulty variant, under which C12_TieBreakAmended fails
RECURSIVE find_min_loop_le(_, _, _, _)
find_min_loop_le(vec, i, min, index) ==
    IF i \notin DOMAIN vec THEN index
    ELSE IF vec[i] <= min THEN find_min_loop_le(vec, i + 1, vec[i], i)
    ELSE find_min_loop_le(vec, i + 1, min, index)

\* the loop of find_min_index from slot i on, with the running min and index
RECURSIVE find_min_loop(_, _, _, _)
find_min_loop(vec, i, min, index) ==
    IF i \notin DOMAIN vec THEN index
    ELSE IF vec[i] < min THEN find_min_loop(vec, i + 1, vec[i], i)
    ELSE find_min_loop(vec, i + 1, min, index)

\* find_min_index scanning from slot 1: a faulty variant, under which
\* C1_SlidingMinimum fails
find_min_index_from_one(self) == find_min_loop(self.vec, 1, INFINITY, 0)

\* find_min_index counting the slots from 1: a faulty variant, under which
\* C10_NoPanic fails
find_min_index_one_based(self) == find_min_loop(self.vec, 0, INFINITY, 0) + 1

find_min_index(self) == find_min_loop(self.vec, 0, INFINITY, 0)

\* calc with one fault: "no_rescan" leaves out the else-if branch,
\* "compare_first" compares the input with the cached minimum before the slot
\* is overwritten, "rescan_always" scans whenever the input is not a new
\* minimum, "le" takes the first branch on input <= vec[min_index], and
\* "write_first" writes the slot before it advances cur_index
Minimum_calc_faulty(self, input, fault) ==
    LET cur == (self.cur_index + 1) % self.n
        s1 == IF fault = "write_first"
              THEN [self EXCEPT !.vec[self.cur_index] = input, !.cur_index = cur]
              ELSE [self EXCEPT !.cur_index = cur, !.vec[cur] = input]
        cached == IF fault = "compare_first" THEN self.vec[self.min_index]
                  ELSE s1.vec[s1.min_index]
        first == IF fault = "le" THEN input <= cached ELSE input < cached
        path == IF first THEN "newmin"
                ELSE IF fault = "rescan_always" THEN "rescan"
                ELSE IF fault = "no_rescan" THEN "keep"
                ELSE IF s1.min_index = s1.cur_index THEN "rescan"
                ELSE "keep"
        s2 == IF path = "newmin" THEN [s1 EXCEPT !.min_index = s1.cur_index]
              ELSE IF path = "rescan"
                   THEN [s1 EXCEPT !.min_index = find_min_index(s1)]
              ELSE s1
    IN  [self |-> s2, ret |-> s2.vec[s2.min_index], path |-> path, panic |-> FALSE]

\* a faulty variant, under which C11_ExtremumIndex fails
Minimum_calc_no_rescan(self, input) == Minimum_calc_faulty(self, input, "no_rescan")

\* a faulty variant, under which C15_NonExtremalFrame fails
Minimum_calc_le(self, input) == Minimum_calc_faulty(self, input, "le")

\* a faulty variant, under which C16_WindowContents fails
Minimum_calc_write_first(self, input) == Minimum_calc_faulty(self, input, "write_first")

\* a faulty variant, under which C14_RescanFrequencyAmended fails
Minimum_calc_rescan_always(self, input) == Minimum_calc_faulty(self, input, "rescan_always")

\* a faulty variant, under which C13_RescanConditionAmended fails
Minimum_calc_compare_first(self, input) == Minimum_calc_faulty(self, input, "compare_first")

\* calc: the instance after the call, the value returned, the branch taken
\* ("newmin", "rescan" or "keep"), and whether the call panicked (a remainder
\* by zero or an index out of the vector's range)
Minimum_calc(self, input) ==
    IF self.n = 0 THEN [self |-> self, ret |-> 0, path |-> "panic", panic |-> TRUE]
    ELSE
    LET cur == (self.cur_index + 1) % self.n
    IN  IF cur \notin DOMAIN self.vec \/ self.min_index \notin DOMAIN self.vec
        THEN [self |-> self, ret |-> 0, path |-> "panic", panic |-> TRUE]
        ELSE
        LET s1 == [self EXCEPT !.cur_index = cur, !.vec[cur] = input]
            path == IF input < s1.vec[s1.min_index] THEN "newmin"
                    ELSE IF s1.min_index = s1.cur_index THEN "rescan"
                    ELSE "keep"
            s2 == IF path = "newmin" THEN [s1 EXCEPT !.min_index = s1.cur_index]
                  ELSE IF path = "rescan"
                       THEN [s1 EXCEPT !.min_index = find_min_index(s1)]
                  ELSE s1
        IN  IF s2.min_index \notin DOMAIN s2.vec
            THEN [self |-> s2, ret |-> 0, path |-> "panic", panic |-> TRUE]
            ELSE [self |-> s2, ret |-> s2.vec[s2.min_index],
                  path |-> path, panic |-> FALSE]

\* next: calc on the bar's low
Minimum_next(self, bar) == Minimum_calc(self, bar.low)

\* reset over the slots 1..n-1 only: a faulty variant, under which
\* C3_ResetReplay fails
Minimum_reset_from_one(self) ==
    [self EXCEPT !.vec = [i \in 0..(self.n - 1) |->
                            IF i = 0 THEN self.vec[i] ELSE INFINITY]]

\* reset: every slot back to INFINITY; min_index and cur_index are not assigned
Minimum_reset(self) ==
    [self EXCEPT !.vec = [i \in 0..(self.n - 1) |-> INFINITY]]

\* ============================================================== Maximum
\* The maximum tracker: the algorithm of Minimum with the comparison inverted
\* and the sentinel negated.
Maximum_new(n) ==
    IF n <= 0 THEN Err("InvalidParameter")
    ELSE Ok([n |-> n,
             vec |-> [i \in 0..(n - 1) |-> NEG_INFINITY],
             max_index |-> 0,
             cur_index |-> 0])

RECURSIVE find_max_loop(_, _, _, _)
find_max_loop(vec, i, max, index) ==
    IF i \notin DOMAIN vec THEN index
    ELSE IF vec[i] > max THEN find_max_loop(vec, i + 1, vec[i], i)
    ELSE find_max_loop(vec, i + 1, max, index)

find_max_index(self) == find_max_loop(self.vec, 0, NEG_INFINITY, 0)

Maximum_calc(self, input) ==
    IF self.n = 0 THEN [self |-> self, ret |-> 0, path |-> "panic", panic |-> TRUE]
    ELSE
    LET cur == (self.cur_index + 1) % self.n
    IN  IF cur \notin DOMAIN self.vec \/ self.max_index \notin DOMAIN self.vec
        THEN [self |-> self, ret |-> 0, path |-> "panic", panic |-> TRUE]
        ELSE
        LET s1 == [self EXCEPT !.cur_index = cur, !.vec[cur] = input]
            path == IF input > s1.vec[s1.max_index] THEN "newmax"
                    ELSE IF s1.max_index = s1.cur_index THEN "rescan"
                    ELSE "keep"
            s2 == IF path = "newmax" THEN [s1 EXCEPT !.max_index = s1.cur_index]
                  ELSE IF path = "rescan"
                       THEN [s1 EXCEPT !.max_index = find_max_index(s1)]
                  ELSE s1
        IN  IF s2.max_index \notin DOMAIN s2.vec
            THEN [self |-> s2, ret |-> 0, path |-> "panic", panic |-> TRUE]
            ELSE [self |-> s2, ret |-> s2.vec[s2.max_index],
                  path |-> path, panic |-> FALSE]

Maximum_reset(self) ==
    [self EXCEPT !.vec = [i \in 0..(self.n - 1) |-> NEG_INFINITY]]

\* ======================================================= FastStochastic
\* new: the ? on Minimum::new and Maximum::new returns their error
FastStochastic_new(length) ==
    LET mn == Minimum_new(length)
        mx == Maximum_new(length)
    IN  IF ~mn.ok THEN mn
        ELSE IF ~mx.ok THEN mx
        ELSE Ok([length |-> length, minimum |-> mn.val, maximum |-> mx.val])

\* the result with max in place of max - min as the divisor: a faulty variant,
\* under which C6_OscillatorResultAmended fails
stoch_value_over_max(reference, min, max) ==
    IF min = max THEN F64(50)
    ELSE Mul(Div(reference - min, max), 100)

\* the result without the min == max case: a faulty variant, under which
\* C7_OscillatorDegeneracy fails
stoch_value_unguarded(reference, min, max) ==
    Mul(Div(reference - min, max - min), 100)

\* the result with the quotient upside down: a faulty variant, under which
\* C19_SingleChannelBounds fails
stoch_value_inverted(reference, min, max) ==
    IF min = max THEN F64(50)
    ELSE Mul(Div(max - min, reference - min), 100)

\* (reference - min) / (max - min) * 100.0, or 50.0 when min == max
stoch_value(reference, min, max) ==
    IF min = max THEN F64(50)
    ELSE Mul(Div(reference - min, max - min), 100)

\* the single-channel update
FastStochastic_calc(self, input) ==
    LET mn == Minimum_calc(self.minimum, input)
        mx == Maximum_calc(self.maximum, input)
    IN  [self |-> [self EXCEPT !.minimum = mn.self, !.maximum = mx.self],
         ret |-> IF mn.panic \/ mx.panic THEN F64(0)
                 ELSE stoch_value(input, mn.ret, mx.ret),
         path |-> <<mn.path, mx.path>>,
         panic |-> mn.panic \/ mx.panic]

\* next with the channels swapped, low to the maximum and high to the minimum
\* tracker: a faulty variant, under which C5_OscillatorBoundsAmended fails
FastStochastic_next_swapped(self, bar) ==
    LET mx == Maximum_calc(self.maximum, bar.low)
        mn == Minimum_calc(self.minimum, bar.high)
    IN  [self |-> [self EXCEPT !.minimum = mn.self, !.maximum = mx.self],
         ret |-> IF mn.panic \/ mx.panic THEN F64(0)
                 ELSE stoch_value(bar.close, mn.ret, mx.ret),
         path |-> <<mn.path, mx.path>>,
         panic |-> mn.panic \/ mx.panic]

\* the multi-channel update; bar has the fields high, low and close
FastStochastic_next(self, bar) ==
    LET mx == Maximum_calc(self.maximum, bar.high)
        mn == Minimum_calc(self.minimum, bar.low)
    IN  [self |-> [self EXCEPT !.minimum = mn.self, !.maximum = mx.self],
         ret |-> IF mn.panic \/ mx.panic THEN F64(0)
                 ELSE stoch_value(bar.close, mn.ret, mx.ret),
         path |-> <<mn.path, mx.path>>,
         panic |-> mn.panic \/ mx.panic]

\* reset that forgets the maximum tracker: a faulty variant, under which
\* C18_OscillatorSideEffects fails
FastStochastic_reset_min_only(self) ==
    [self EXCEPT !.minimum = Minimum_reset(self.minimum)]

FastStochastic_reset(self) ==
    [self EXCEPT !.minimum = Minimum_reset(self.minimum),
                 !.maximum = Maximum_reset(self.maximum)]

\* ========================================================= RateOfChange
\* prices is the VecDeque, front first; Rust's prices[0] is prices[1] here
RateOfChange_new(length) ==
    IF length = 0 THEN Err("InvalidParameter")
    ELSE Ok([length |-> length, prices |-> <<>>])

\* calc popping when len() > length + 1 instead of len() > length: a faulty
\* variant, under which C17_LagQueueBound fails
RateOfChange_calc_late_pop(self, input) ==
    LET pushed == Append(self.prices, input)
        s1 == [self EXCEPT !.prices = pushed]
    IN  IF Len(pushed) = 1
        THEN [self |-> s1, ret |-> F64(0), path |-> "first", panic |-> FALSE]
        ELSE
        LET pop == Len(pushed) > self.length + 1
            initial_price == Head(pushed)
            s2 == IF pop THEN [s1 EXCEPT !.prices = Tail(pushed)] ELSE s1
        IN  [self |-> s2,
             ret |-> Mul(Div(input - initial_price, initial_price), 100),
             path |-> IF pop THEN "pop" ELSE "front",
             panic |-> FALSE]

\* calc popping when len() >= length instead of len() > length: a faulty
\* variant, under which C8_LagBaseline fails
RateOfChange_calc_early_pop(self, input) ==
    LET pushed == Append(self.prices, input)
        s1 == [self EXCEPT !.prices = pushed]
    IN  IF Len(pushed) = 1
        THEN [self |-> s1, ret |-> F64(0), path |-> "first", panic |-> FALSE]
        ELSE
        LET pop == Len(pushed) >= self.length
            initial_price == Head(pushed)
            s2 == IF pop THEN [s1 EXCEPT !.prices = Tail(pushed)] ELSE s1
        IN  [self |-> s2,
             ret |-> Mul(Div(input - initial_price, initial_price), 100),
             path |-> IF pop THEN "pop" ELSE "front",
             panic |-> FALSE]

\* calc: path is "first" (the early return), "pop" (pop_front) or "front"
\* (prices[0]); a pop_front().unwrap() or a prices[0] on an empty queue panics
RateOfChange_calc(self, input) ==
    LET pushed == Append(self.prices, input)
        s1 == [self EXCEPT !.prices = pushed]
    IN  IF Len(pushed) = 1
        THEN [self |-> s1, ret |-> F64(0), path |-> "first", panic |-> FALSE]
        ELSE IF Len(pushed) = 0
        THEN [self |-> s1, ret |-> F64(0), path |-> "panic", panic |-> TRUE]
        ELSE
        LET pop == Len(pushed) > self.length
            initial_price == Head(pushed)
            s2 == IF pop THEN [s1 EXCEPT !.prices = Tail(pushed)] ELSE s1
        IN  [self |-> s2,
             ret |-> Mul(Div(input - initial_price, initial_price), 100),
             path |-> IF pop THEN "pop" ELSE "front",
             panic |-> FALSE]

\* next: calc on the bar's close
RateOfChange_next(self, bar) == RateOfChange_calc(self, bar.close)

\* reset that leaves the queue as it is: a faulty variant, under which
\* C9_FirstUpdateOnly fails
RateOfChange_reset_keeps(self) == self

RateOfChange_reset(self) == [self EXCEPT !.prices = <<>>]

\* ======================================================== state machine
\* One indicator is constructed and then driven by a caller, one call at a
\* time.  Beside the instance the state keeps what an observer of the calls
\* sees (the last operation, its input and its result) and two references the
\* properties are stated against: the inputs fed so far (hist) and a second
\* instance (fresh) that is constructed anew at every reset and fed the same
\* inputs as the instance from then on.
VARIABLES
    pc,        \* "init", "live", "failed" (new returned Err) or "panicked"
    kind,      \* "None", "Minimum", "FastStochastic" or "RateOfChange"
    arg,       \* the length passed to new
    error,     \* the ErrorKind new returned, or "None"
    self,      \* the instance
    fresh,     \* an instance constructed at the last reset, fed the same inputs
    hist,      \* the inputs since construction or the last reset: all of them
               \* for RateOfChange, the last n of them for the trackers
    inp,       \* the input of the last update
    out,       \* the f64 the last update returned
    outFresh,  \* the f64 the last update of fresh returned
    op,        \* the last operation: "none", "new", "calc", "next" or "reset"
    path,      \* the branch the last update took
    ticks,     \* the number of updates of a Minimum since construction
    scans,     \* the number of them that called find_min_index
    quiet      \* the number of them since the last one that took the first
               \* branch of calc (or since construction), up to n

vars == <<pc, kind, arg, error, self, fresh, hist, inp, out, outFresh, op, path,
          ticks, scans, quiet>>

Null == [null |-> TRUE]

\* the last n elements of s
LastN(s, n) == IF Len(s) > n THEN SubSeq(s, Len(s) - n + 1, Len(s)) ELSE s

Init ==
    /\ pc = "init"
    /\ kind = "None"
    /\ arg = 0
    /\ error = "None"
    /\ self = Null
    /\ fresh = Null
    /\ hist = <<>>
    /\ inp = Null
    /\ out = F64(0)
    /\ outFresh = F64(0)
    /\ op = "none"
    /\ path = "none"
    /\ ticks = 0
    /\ scans = 0
    /\ quiet = 0

\* new(length) of indicator k returned r
Construct(k, length, r) ==
    /\ pc = "init"
    /\ pc' = IF r.ok THEN "live" ELSE "failed"
    /\ kind' = k
    /\ arg' = length
    /\ error' = IF r.ok THEN "None" ELSE r.err
    /\ self' = IF r.ok THEN r.val ELSE Null
    /\ fresh' = IF r.ok THEN r.val ELSE Null
    /\ hist' = <<>>
    /\ inp' = Null
    /\ out' = F64(0)
    /\ outFresh' = F64(0)
    /\ op' = "new"
    /\ path' = "none"
    /\ UNCHANGED <<ticks, scans, quiet>>

\* an update returned r on the instance and rf on fresh
Update(name, input, r, rf, h) ==
    /\ pc' = IF r.panic THEN "panicked" ELSE "live"
    /\ self' = r.self
    /\ fresh' = rf.self
    /\ hist' = h
    /\ inp' = input
    /\ out' = r.ret
    /\ outFresh' = rf.ret
    /\ op' = name
    /\ path' = r.path
    /\ UNCHANGED <<kind, arg, error>>

\* reset() left the instance as s; fresh is constructed anew
Reset(s, f) ==
    /\ self' = s
    /\ fresh' = f
    /\ hist' = <<>>
    /\ inp' = Null
    /\ out' = F64(0)
    /\ outFresh' = F64(0)
    /\ op' = "reset"
    /\ path' = "none"
    /\ UNCHANGED <<pc, kind, arg, error, ticks, scans, quiet>>

\* an update of a Minimum that took the branch p is counted
Counted(p) ==
    /\ ticks' = ticks + 1
    /\ scans' = IF p = "rescan" THEN scans + 1 ELSE scans
    /\ quiet' = IF p = "newmin" THEN 0
               ELSE IF quiet < self.n THEN quiet + 1
               ELSE quiet

\* the updates of the other indicators are not counted
Uncounted == UNCHANGED <<ticks, scans, quiet>>

\* the f64 a tracker returned
Returned(r) == [r EXCEPT !.ret = F64(r.ret)]

NewMinimum == \E length \in Lengths : Construct("Minimum", length, Minimum_new(length))

MinimumCalc ==
    /\ pc = "live" /\ kind = "Minimum"
    /\ ticks < MaxTicks
    /\ \E input \in Values :
         /\ Update("calc", [value |-> input],
                   Returned(Minimum_calc(self, input)),
                   Returned(Minimum_calc(fresh, input)),
                   LastN(Append(hist, input), self.n))
         /\ Counted(Minimum_calc(self, input).path)

MinimumNext ==
    /\ pc = "live" /\ kind = "Minimum"
    /\ ticks < MaxTicks
    /\ \E low \in Values :
         LET bar == [low |-> low]
         IN  /\ Update("next", bar,
                       Returned(Minimum_next(self, bar)),
                       Returned(Minimum_next(fresh, bar)),
                       LastN(Append(hist, low), self.n))
             /\ Counted(Minimum_next(self, bar).path)

MinimumReset ==
    /\ pc = "live" /\ kind = "Minimum"
    /\ Reset(Minimum_reset(self), Minimum_new(self.n).val)

NewFastStochastic ==
    \E length \in Periods :
        Construct("FastStochastic", length, FastStochastic_new(length))

FastStochasticCalc ==
    /\ pc = "live" /\ kind = "FastStochastic"
    /\ \E input \in Prices :
         Update("calc", [value |-> input],
                FastStochastic_calc(self, input),
                FastStochastic_calc(fresh, input),
                LastN(Append(hist, [high |-> input, low |-> input]), self.length))
    /\ Uncounted

FastStochasticNext ==
    /\ pc = "live" /\ kind = "FastStochastic"
    /\ \E high \in Prices, low \in Prices, close \in Prices :
         LET bar == [high |-> high, low |-> low, close |-> close]
         IN  Update("next", bar,
                    FastStochastic_next(self, bar),
                    FastStochastic_next(fresh, bar),
                    LastN(Append(hist, [high |-> high, low |-> low]), self.length))
    /\ Uncounted

FastStochasticReset ==
    /\ pc = "live" /\ kind = "FastStochastic"
    /\ Reset(FastStochastic_reset(self), FastStochastic_new(self.length).val)

NewRateOfChange ==
    \E length \in Lengths :
        Construct("RateOfChange", length, RateOfChange_new(length))

RateOfChangeCalc ==
    /\ pc = "live" /\ kind = "RateOfChange"
    /\ Len(hist) < MaxSteps
    /\ \E input \in Values :
         Update("calc", [value |-> input],
                RateOfChange_calc(self, input),
                RateOfChange_calc(fresh, input),
                Append(hist, input))
    /\ Uncounted

RateOfChangeNext ==
    /\ pc = "live" /\ kind = "RateOfChange"
    /\ Len(hist) < MaxSteps
    /\ \E close \in Values :
         LET bar == [close |-> close]
         IN  Update("next", bar,
                    RateOfChange_next(self, bar),
                    RateOfChange_next(fresh, bar),
                    Append(hist, close))
    /\ Uncounted

RateOfChangeReset ==
    /\ pc = "live" /\ kind = "RateOfChange"
    /\ Reset(RateOfChange_reset(self), RateOfChange_new(self.length).val)

NextMinimum == NewMinimum \/ MinimumCalc \/ MinimumNext \/ MinimumReset

NextFastStochastic ==
    NewFastStochastic \/ FastStochasticCalc \/ FastStochasticNext \/ FastStochasticReset

NextRateOfChange ==
    NewRateOfChange \/ RateOfChangeCalc \/ RateOfChangeNext \/ RateOfChangeReset

\* a FastStochastic driven through the single-channel update only
NextFastStochasticCalc ==
    NewFastStochastic \/ FastStochasticCalc \/ FastStochasticReset

Next == NextMinimum \/ NextFastStochastic \/ NextRateOfChange

SpecMinimum == Init /\ [][NextMinimum]_vars

SpecFastStochastic == Init /\ [][NextFastStochastic]_vars

SpecFastStochasticCalc == Init /\ [][NextFastStochasticCalc]_vars

SpecRateOfChange == Init /\ [][NextRateOfChange]_vars

Spec == Init /\ [][Next]_vars

\* =========================================================== properties
Range(s) == {s[i] : i \in DOMAIN s}

\* the minimum and the maximum of a non-empty set of integers, by definition
SetMin(S) == CHOOSE m \in S : \A x \in S : m <= x

SetMax(S) == CHOOSE m \in S : \A x \in S : m >= x

IsUpdate == pc = "live" /\ op \in {"calc", "next"}

\* ---- C1
\* C1: Sliding minimum correctness.  After every calc of a Minimum of length
\* N, the value returned equals the minimum, recomputed naively, of the last
\* min(N, k) inputs, k being the number of inputs since construction (or since
\* the last reset); hist holds exactly those inputs.
C1_SlidingMinimum ==
    (kind = "Minimum" /\ IsUpdate) =>
        /\ Len(hist) >= 1
        /\ Len(hist) <= self.n
        /\ out = F64(SetMin(Range(hist)))

\* a full window of length 3 whose minimum was just evicted: the rescan finds
\* an older input that differs from the one just written
C1_Witness ==
    /\ kind = "Minimum" /\ IsUpdate /\ op = "calc"
    /\ self.n = 3 /\ Len(hist) = 3
    /\ path = "rescan"
    /\ out # F64(inp.value)
    /\ out = F64(SetMin(Range(hist)))

\* ---- C2
InstanceLengths ==
    IF kind = "Minimum" THEN {self.n, Cardinality(DOMAIN self.vec)}
    ELSE IF kind = "FastStochastic"
         THEN {self.length, self.minimum.n, self.maximum.n}
    ELSE {self.length}

\* C2: for Minimum, FastStochastic and RateOfChange alike, new(0) fails with
\* InvalidParameter, new(length >= 1) succeeds, and no instance of length 0
\* exists in any state.
C2_Construction ==
    (pc # "init") =>
        /\ (arg = 0) => (pc = "failed" /\ error = "InvalidParameter")
        /\ (arg >= 1) => (pc # "failed" /\ error = "None")
        /\ (pc # "failed") => (\A n \in InstanceLengths : n = arg /\ n >= 1)

C2_Witness ==
    /\ pc = "failed" /\ kind = "FastStochastic"
    /\ arg = 0 /\ error = "InvalidParameter" /\ self = Null

\* ---- C3
\* C3: Reset replay.  For each indicator, after reset() the outputs of the
\* updates that follow are those of a freshly constructed instance of the same
\* length fed the same inputs.
C3_ResetReplay == IsUpdate => out = outFresh

\* a Minimum that was reset with its indexes away from 0 and then fed two
\* inputs: its state differs from the fresh instance's, its output does not
C3_Witness ==
    /\ kind = "Minimum" /\ IsUpdate
    /\ Len(hist) = 2
    /\ self.vec = fresh.vec
    /\ self.cur_index # fresh.cur_index
    /\ out = outFresh

\* ---- C4
\* C4: after reset() a Minimum's whole state is its post-construction state:
\* every slot INFINITY, cur_index (and min_index) 0, n unchanged.
C4_ResetRestoresConstruction ==
    (kind = "Minimum" /\ pc = "live" /\ op = "reset") =>
        self = Minimum_new(self.n).val

\* ---- C5
TrackedMin == self.minimum.vec[self.minimum.min_index]

TrackedMax == self.maximum.vec[self.maximum.max_index]

\* 0 <= r <= 100 for an f64 r (false of NaN and of the infinities)
InPercentRange(r) == r.den > 0 /\ 0 <= r.num /\ r.num <= 100 * r.den

Lows == {hist[i].low : i \in DOMAIN hist}

Highs == {hist[i].high : i \in DOMAIN hist}

Reference == IF op = "calc" THEN inp.value ELSE inp.close

\* the observation the last update fed to the trackers
FedLast ==
    /\ Len(hist) >= 1
    /\ hist[Len(hist)] = IF op = "calc" THEN [high |-> inp.value, low |-> inp.value]
                         ELSE [high |-> inp.high, low |-> inp.low]

\* C6 as stated: calc(value) feeds value to both trackers, next(high, low,
\* close) feeds high to the maximum and low to the minimum tracker, and the
\* update returns (reference - min) / (max - min) * 100 over the extrema of the
\* last `length` observations, reference being value or close.
C6_OscillatorResult ==
    (kind = "FastStochastic" /\ IsUpdate) =>
        /\ FedLast
        /\ TrackedMin = SetMin(Lows)
        /\ TrackedMax = SetMax(Highs)
        /\ out = Mul(Div(Reference - SetMin(Lows), SetMax(Highs) - SetMin(Lows)), 100)

\* C6 as amended: the same whenever max differs from min; when max equals min
\* the quotient is 0/0 and the update returns 50 instead.
C6_OscillatorResultAmended ==
    (kind = "FastStochastic" /\ IsUpdate) =>
        /\ FedLast
        /\ TrackedMin = SetMin(Lows)
        /\ TrackedMax = SetMax(Highs)
        /\ (SetMax(Highs) # SetMin(Lows)) =>
              out = Mul(Div(Reference - SetMin(Lows), SetMax(Highs) - SetMin(Lows)), 100)
        /\ (SetMax(Highs) = SetMin(Lows)) => out = F64(50)

\* a multi-channel update over a full window of 2 whose extrema come from the
\* older bar
C6_Witness ==
    /\ kind = "FastStochastic" /\ IsUpdate /\ op = "next"
    /\ self.length = 2 /\ Len(hist) = 2
    /\ hist[1].low < hist[2].low /\ hist[1].high > hist[2].high
    /\ inp.close # inp.low /\ inp.close # inp.high
    /\ out = Div(100 * (inp.close - hist[1].low), hist[1].high - hist[1].low)

\* ---- C7
\* C7: Oscillator degeneracy.  Whenever the tracked max equals the tracked min
\* after an update the oscillator returns exactly 50; in particular a window
\* holding one constant value, fed through calc, yields 50 on every call.
C7_OscillatorDegeneracy ==
    (kind = "FastStochastic" /\ IsUpdate) =>
        /\ (TrackedMax = TrackedMin) => out = F64(50)
        /\ (op = "calc" /\ \A i \in DOMAIN hist :
                hist[i] = [high |-> inp.value, low |-> inp.value]) => out = F64(50)

\* the same value fed three times to an oscillator of length 2: the third call
\* overwrites the slot of the cached extrema
C7_Witness ==
    /\ kind = "FastStochastic" /\ IsUpdate /\ op = "calc"
    /\ self.length = 2 /\ Len(hist) = 2
    /\ hist[1] = hist[2] /\ hist[1].high = hist[1].low
    /\ path = <<"rescan", "rescan">>
    /\ out = F64(50)

\* ---- C8
\* the input the k-th update of a RateOfChange of length n is compared to
Baseline(h, n) == IF Len(h) > n THEN h[Len(h) - n] ELSE h[1]

\* C8: Lag baseline.  The k-th update since construction or reset of a
\* RateOfChange of length N returns (value - baseline) / baseline * 100, the
\* baseline being the input of update k - N for k > N and the first input for
\* 2 <= k <= N.
C8_LagBaseline ==
    (kind = "RateOfChange" /\ IsUpdate /\ Len(hist) >= 2) =>
        LET value == hist[Len(hist)]
            baseline == Baseline(hist, self.length)
        IN  /\ value = (IF op = "calc" THEN inp.value ELSE inp.close)
            /\ out = Mul(Div(value - baseline, baseline), 100)

\* past warm-up, against an input that is neither the first nor the previous
C8_Witness ==
    /\ kind = "RateOfChange" /\ IsUpdate /\ op = "calc"
    /\ self.length = 2 /\ Len(hist) = 4
    /\ hist[2] # hist[1] /\ hist[2] # hist[3] /\ hist[2] # 0
    /\ path = "pop"
    /\ out = Mul(Div(hist[4] - hist[2], hist[2]), 100)

\* ---- C9
\* C9: for every length >= 1 the first update after construction or reset of a
\* RateOfChange returns 0.0 whatever the input, and no later update takes the
\* no-baseline early return.
C9_FirstUpdateOnly ==
    (kind = "RateOfChange" /\ IsUpdate) =>
        /\ (Len(hist) = 1) => (out = F64(0) /\ path = "first")
        /\ (Len(hist) > 1) => path \in {"pop", "front"}

\* length 1: the second update already pops the first input as its baseline
C9_Witness ==
    /\ kind = "RateOfChange" /\ IsUpdate
    /\ self.length = 1 /\ Len(hist) = 2
    /\ hist[1] # 0 /\ hist[2] # hist[1]
    /\ path = "pop"
    /\ out # F64(0)

\* ---- C10
IndexesInRange ==
    IF kind = "Minimum"
    THEN /\ self.cur_index \in 0..(self.n - 1)
         /\ self.min_index \in 0..(self.n - 1)
         /\ DOMAIN self.vec = 0..(self.n - 1)
    ELSE IF kind = "FastStochastic"
    THEN /\ self.minimum.cur_index \in 0..(self.minimum.n - 1)
         /\ self.minimum.min_index \in 0..(self.minimum.n - 1)
         /\ self.maximum.cur_index \in 0..(self.maximum.n - 1)
         /\ self.maximum.max_index \in 0..(self.maximum.n - 1)
    ELSE /\ (path = "pop") => Len(self.prices) >= 1
         /\ (path = "front") => Len(self.prices) >= 2

\* C10: no update of any of the three indicators panics, after any sequence of
\* updates and resets: cur_index and min_index stay within 0..n-1 and
\* RateOfChange pops or indexes its queue only when it is not empty.
C10_NoPanic ==
    /\ pc # "panicked"
    /\ path # "panic"
    /\ (pc = "live") => IndexesInRange

\* a rescan that lands on the last slot
C10_Witness ==
    /\ kind = "Minimum" /\ IsUpdate
    /\ self.n = 3 /\ path = "rescan"
    /\ self.min_index = 2 /\ self.cur_index = 0

\* ---- C11
\* C11: Extremum index invariant.  In every state of a Minimum (after
\* construction, after any calc, after any reset) vec[min_index] is the
\* minimum of all n slots.
C11_ExtremumIndex ==
    (kind = "Minimum" /\ pc = "live") =>
        /\ self.min_index \in DOMAIN self.vec
        /\ self.vec[self.min_index] = SetMin(Range(self.vec))

\* a full window whose minimum was just evicted and found again by the scan
\* in a slot other than the one written
C11_Witness ==
    /\ kind = "Minimum" /\ IsUpdate
    /\ self.n = 3 /\ Len(hist) = 3
    /\ path = "rescan"
    /\ self.min_index # self.cur_index
    /\ self.vec[self.min_index] < self.vec[self.cur_index]

\* ---- C12
\* a step that is an update of a live Minimum
MinimumUpdateStep ==
    /\ kind = "Minimum" /\ pc = "live" /\ pc' = "live"
    /\ op' \in {"calc", "next"}

\* the input of the update the step makes
StepInput == IF op' = "calc" THEN inp'.value ELSE inp'.low

\* the cached extremum before the step
CachedBefore == self.vec[self.min_index]

\* the lowest-numbered slot holding the minimum of vec
LowestMinSlot(vec) == SetMin({i \in DOMAIN vec : vec[i] = SetMin(Range(vec))})

\* C12 as stated: Tie-break.  On an update of a Minimum whose new value equals
\* the cached extremum value, the cached extremum index becomes the cursor (the
\* most recently written of the equal values).
C12_TieBreak ==
    [][(MinimumUpdateStep /\ StepInput = CachedBefore) =>
           self'.min_index = self'.cur_index]_vars

\* C12 as amended: on such an update the cached index does not move to the
\* cursor.  When the slot written is not the cached one the index is unchanged
\* (it keeps identifying the older of the equal values); when the slot written
\* is the cached one the full scan sets it to the lowest-numbered slot holding
\* the minimum.
C12_TieBreakAmended ==
    [][(MinimumUpdateStep /\ StepInput = CachedBefore) =>
           IF self'.cur_index = self.min_index
           THEN /\ path' = "rescan"
                /\ self'.min_index = LowestMinSlot(self'.vec)
           ELSE /\ path' = "keep"
                /\ self'.min_index = self.min_index]_vars

\* an input equal to the minimum, written beside it: the index stays on the
\* older slot
C12_Witness ==
    /\ kind = "Minimum" /\ IsUpdate
    /\ self.n >= 2 /\ Len(hist) >= 2
    /\ path = "keep"
    /\ self.vec[self.cur_index] = self.vec[self.min_index]
    /\ self.min_index # self.cur_index

\* ---- C13
\* C13 as stated: Rescan condition.  An update of a Minimum makes the full scan
\* only when the slot just overwritten is the one min_index pointed to and the
\* new value does not beat the extremum cached before the update.
C13_RescanCondition ==
    [][(MinimumUpdateStep /\ path' = "rescan") =>
           /\ self'.cur_index = self.min_index
           /\ ~(StepInput < CachedBefore)]_vars

\* C13 as amended: an update of a Minimum makes the full scan exactly when the
\* slot just overwritten is the one min_index pointed to, whether or not the
\* new value beats the extremum cached before the update; in every other update
\* min_index is set without a scan.
C13_RescanConditionAmended ==
    [][MinimumUpdateStep =>
           /\ path' \in {"newmin", "rescan", "keep"}
           /\ path' = "rescan" <=> self'.cur_index = self.min_index]_vars

\* a scan made for a value below the extremum cached before the update, of a
\* finite window
C13_Witness ==
    /\ kind = "Minimum" /\ IsUpdate
    /\ path = "rescan"
    /\ Len(hist) >= 2
    /\ self.min_index = self.cur_index
    /\ self.vec[self.cur_index] < hist[Len(hist) - 1]
    /\ \A i \in DOMAIN self.vec : self.vec[i] >= hist[Len(hist) - 1]
                                     \/ i = self.cur_index

\* ---- C14
\* ceil(a / b) of naturals, b > 0
CeilDiv(a, b) == (a + b - 1) \div b

C15_NonExtremalFrame ==
    [][(/\ MinimumUpdateStep
        /\ self'.cur_index # self.min_index
        /\ ~(StepInput < CachedBefore)) =>
           /\ self'.min_index = self.min_index
           /\ out' = F64(CachedBefore)
           /\ self'.cur_index = (self.cur_index + 1) % self.n
           /\ self'.vec = [self.vec EXCEPT ![self'.cur_index] = StepInput]
           /\ self'.n = self.n]_vars

\* a value above the minimum, written beside it
C15_Witness ==
    /\ kind = "Minimum" /\ IsUpdate
    /\ self.n >= 2 /\ Len(hist) >= 2
    /\ path = "keep"
    /\ self.min_index # self.cur_index
    /\ self.vec[self.cur_index] > self.vec[self.min_index]
    /\ out = F64(self.vec[self.min_index])

\* ---- C16
\* the slot written j updates ago
SlotAgo(j) == (self.cur_index + self.n - j) % self.n

\* C16: Window contents.  The window of a Minimum always holds exactly N slots;
\* an update advances the cursor by one modulo N and writes the input at the
\* cursor; after k updates since construction or the last reset the slots hold
\* the last min(k, N) inputs and the other slots hold the sentinel INFINITY.
C16_WindowContents ==
    (kind = "Minimum" /\ pc = "live") =>
        /\ DOMAIN self.vec = 0 .. (self.n - 1)
        /\ self.n = arg
        /\ self.cur_index \in DOMAIN self.vec
        /\ Len(hist) <= self.n
        /\ \A j \in 0 .. (self.n - 1) :
             self.vec[SlotAgo(j)] =
                 IF j < Len(hist) THEN hist[Len(hist) - j] ELSE INFINITY

\* a window with one slot still at the sentinel after a reset and two updates
C16_Witness ==
    /\ kind = "Minimum" /\ IsUpdate
    /\ self.n = 3 /\ Len(hist) = 2
    /\ ticks > 3
    /\ self.cur_index = 0
    /\ self.vec[1] = INFINITY
    /\ self.vec[0] # self.vec[2]

\* ---- C17
\* the smaller of two numbers
Min2(a, b) == IF a < b THEN a ELSE b

\* C17: Lag queue bound.  The queue of a RateOfChange of length N holds at most
\* N entries between calls, so at most N + 1 after the push_back of an update;
\* after the k-th update since construction or the last reset it holds
\* min(k, N) entries, which is between 1 and N, and N from the N-th update on;
\* reset() empties it.
C17_LagQueueBound ==
    (kind = "RateOfChange" /\ pc = "live") =>
        /\ Len(self.prices) <= self.length
        /\ IsUpdate =>
             /\ Len(self.prices) >= 1
             /\ Len(self.prices) = Min2(Len(hist), self.length)
             /\ Len(hist) > self.length => Len(self.prices) = self.length
        /\ op = "reset" => self.prices = <<>>

\* two updates past the warm-up of a queue of length 2
C17_Witness ==
    /\ kind = "RateOfChange" /\ IsUpdate
    /\ self.length = 2 /\ Len(hist) = 4
    /\ path = "pop"
    /\ Len(self.prices) = 2

\* ---- C18
\* a step that is a call on a live FastStochastic
FastStochasticStep == kind = "FastStochastic" /\ pc = "live" /\ pc' = "live"

\* the values the update of the step feeds to the two trackers
StepLow == IF op' = "calc" THEN inp'.value ELSE inp'.low
StepHigh == IF op' = "calc" THEN inp'.value ELSE inp'.high

\* tracker t advanced once from s, writing v
AdvancedOnce(s, t, v) ==
    /\ t.n = s.n
    /\ t.cur_index = (s.cur_index + 1) % s.n
    /\ t.vec = [s.vec EXCEPT ![t.cur_index] = v]

\* every slot of tracker t holds v, and its cursor is where it was in s
Refilled(s, t, v) ==
    /\ t.n = s.n
    /\ t.cur_index = s.cur_index
    /\ DOMAIN t.vec = DOMAIN s.vec
    /\ \A i \in DOMAIN t.vec : t.vec[i] = v

\* C18: Oscillator side effects.  Every update of a FastStochastic, calc or
\* next, after whatever calls, advances the minimum tracker and the maximum
\* tracker once each; reset() resets both trackers; no call changes the length.
C18_OscillatorSideEffects ==
    [][FastStochasticStep =>
           /\ self'.length = self.length
           /\ op' \in {"calc", "next"} =>
                /\ AdvancedOnce(self.minimum, self'.minimum, StepLow)
                /\ AdvancedOnce(self.maximum, self'.maximum, StepHigh)
           /\ op' = "reset" =>
                /\ Refilled(self.minimum, self'.minimum, INFINITY)
                /\ Refilled(self.maximum, self'.maximum, NEG_INFINITY)]_vars

\* a multi-channel update after another update: both cursors have moved
\* together, each tracker holding its own channel
C18_Witness ==
    /\ kind = "FastStochastic" /\ IsUpdate
    /\ op = "next" /\ inp.high # inp.low
    /\ self.length = 2 /\ Len(hist) = 2
    /\ self.minimum.cur_index = self.maximum.cur_index
    /\ self.minimum.vec[self.minimum.cur_index] = inp.low
    /\ self.maximum.vec[self.maximum.cur_index] = inp.high

\* ---- C19
\* C19: Implicit.  When a FastStochastic is driven through calc only, with
\* finite inputs, after every update min <= value <= max holds of the two
\* trackers and the returned value lies in [0, 100], 50 when min = max, after
\* any sequence of updates and resets.
C19_SingleChannelBounds ==
    (kind = "FastStochastic" /\ IsUpdate) =>
        /\ op = "calc"
        /\ TrackedMin <= inp.value /\ inp.value <= TrackedMax
        /\ InPercentRange(out)
        /\ (TrackedMin = TrackedMax) => out = F64(50)

\* after a reset that left the cursors where they were, a value above the
\* other one in the window
C19_Witness ==
    /\ kind = "FastStochastic" /\ IsUpdate
    /\ op = "calc"
    /\ self.length = 2 /\ Len(hist) = 2
    /\ self.minimum.cur_index # fresh.minimum.cur_index
    /\ TrackedMin < TrackedMax
    /\ inp.value = TrackedMax
    /\ out = F64(100)

====
